---- MODULE Spec2Model ----
(***************************************************************************)
(* Model of InteractiveHtmlBom/generate_interactive_bom.py (Python 2).     *)
(*                                                                         *)
(* Python strings are sequences of one-character strings.  Python floats   *)
(* that arise from scaling a native integer by a decimal constant are      *)
(* exact rationals num/den.  None is the string "None" where the other     *)
(* values are strings, and the record NoneObject where they are objects.   *)
(***************************************************************************)
EXTENDS Integers, Sequences, FiniteSets, TLC

VARIABLES
    pc,                \* "call" before the modelled function has run, "return" after
    l,                 \* natural_sort: the list handed to it
    refs_sorted,       \* natural_sort: the list it returns
    pcb,               \* the board: the sequence pcb.GetModules() enumerates
    filter_layer,      \* generate_bom: its filter_layer argument
    part_groups,       \* generate_bom: the grouping dict, as items() yields it
    bom_table,         \* generate_bom: the table it returns
    modules,           \* parse_modules: the dict it returns
    d,                 \* parse_draw_segment: the primitive handed to it
    shape_rec,         \* parse_draw_segment: the record it returns
    pad,               \* parse_pad: the pad handed to it
    pad_dict,          \* parse_pad: the record it returns
    board,             \* main: the board (file name, drawings, accessors)
    launch_browser,    \* main: its launch_browser argument
    main_pc,           \* main: position in the function
    edges_bbox,        \* main: (edges, bbox) as parse_edges returned them
    messages,          \* main: messages reported through logging.error / wx.MessageBox
    generate_file_calls, \* number of calls of generate_file
    open_file_calls      \* number of calls of open_file

vars == <<pc, l, refs_sorted, pcb, filter_layer, part_groups, bom_table, modules,
          d, shape_rec, pad, pad_dict, board, launch_browser, main_pc,
          edges_bbox, messages, generate_file_calls, open_file_calls>>

sort_vars == <<l, refs_sorted>>
bom_vars == <<pcb, filter_layer, part_groups, bom_table, modules>>
shape_vars == <<d, shape_rec>>
pad_vars == <<pad, pad_dict>>
main_vars == <<board, launch_browser, main_pc, edges_bbox, messages,
               generate_file_calls, open_file_calls>>

None == "None"
NoneObject == [kind |-> "None"]

(***************************************************************************)
(* Bounds of the model.                                                    *)
(***************************************************************************)
MaxRefLen == 3      \* longest reference string handed to natural_sort
MaxModules == 3     \* most footprints on a board
MaxDrawings == 2    \* most board-level drawings, and most items per footprint
MaxAngle == 2       \* native angles range over -MaxAngle..MaxAngle (x 900)

(***************************************************************************)
(* Characters and Python 2 str operations.                                 *)
(***************************************************************************)
Digits == <<"0", "1", "2", "3", "4", "5", "6", "7", "8", "9">>
UpperCase == <<"A", "B", "C", "D", "E", "F", "G", "H", "I", "J", "K", "L", "M",
               "N", "O", "P", "Q", "R", "S", "T", "U", "V", "W", "X", "Y", "Z">>
LowerCase == <<"a", "b", "c", "d", "e", "f", "g", "h", "i", "j", "k", "l", "m",
               "n", "o", "p", "q", "r", "s", "t", "u", "v", "w", "x", "y", "z">>

Range(s) == {s[i] : i \in DOMAIN s}
IndexOf(s, c) == CHOOSE i \in DOMAIN s : s[i] = c
Chars == Range(Digits) \cup Range(UpperCase) \cup Range(LowerCase)

\* ord(c): the byte value Python 2 compares str by
OrdTable == [c \in Chars |->
               IF c \in Range(Digits) THEN 47 + IndexOf(Digits, c)
               ELSE IF c \in Range(UpperCase) THEN 64 + IndexOf(UpperCase, c)
               ELSE 96 + IndexOf(LowerCase, c)]
Ord(c) == OrdTable[c]

\* c.lower()
LowerTable == [c \in Chars |->
                 IF c \in Range(UpperCase) THEN LowerCase[IndexOf(UpperCase, c)]
                 ELSE c]
lower(text) == [i \in DOMAIN text |-> LowerTable[text[i]]]

IsDigitChar(c) == c \in Range(Digits)
\* text.isdigit(): non-empty and every character a digit
isdigit(text) == text /= <<>> /\ \A i \in DOMAIN text : IsDigitChar(text[i])

\* int(text) for a digit string
RECURSIVE int(_)
int(text) ==
    IF text = <<>> THEN 0
    ELSE 10 * int(SubSeq(text, 1, Len(text) - 1))
         + (IndexOf(Digits, text[Len(text)]) - 1)

\* cmp(a, b) on integers
CmpInt(a, b) == IF a < b THEN -1 ELSE IF a > b THEN 1 ELSE 0

\* cmp(a, b) on str: byte-wise, a proper prefix is smaller
RECURSIVE CmpStr(_, _)
CmpStr(a, b) ==
    IF a = <<>> /\ b = <<>> THEN 0
    ELSE IF a = <<>> THEN -1
    ELSE IF b = <<>> THEN 1
    ELSE IF Ord(Head(a)) /= Ord(Head(b)) THEN CmpInt(Ord(Head(a)), Ord(Head(b)))
    ELSE CmpStr(Tail(a), Tail(b))

(***************************************************************************)
(* generate_bom.convert / alphanum_key / natural_sort                      *)
(***************************************************************************)
\* re.split('([0-9]+)', key): alternating non-digit and digit runs; the list
\* starts and ends with a (possibly empty) non-digit run.
RECURSIVE re_split_from(_, _, _)
re_split_from(rest, cur, inDigits) ==
    IF rest = <<>> THEN (IF inDigits THEN <<cur, <<>>>> ELSE <<cur>>)
    ELSE IF IsDigitChar(Head(rest)) = inDigits
         THEN re_split_from(Tail(rest), Append(cur, Head(rest)), inDigits)
         ELSE <<cur>> \o re_split_from(Tail(rest), <<Head(rest)>>, ~inDigits)
re_split(key) == re_split_from(key, <<>>, FALSE)

\* convert without the int(): digit runs compared as text
convert_as_text(text) == [type |-> "str", val |-> lower(text)]

\* convert(text): int(text) if text.isdigit() else text.lower()
convert(text) ==
    IF isdigit(text) THEN [type |-> "int", val |-> int(text)]
    ELSE [type |-> "str", val |-> lower(text)]

alphanum_key(key) ==
    LET runs == re_split(key) IN [i \in DOMAIN runs |-> convert(runs[i])]

\* cmp of two key elements in Python 2: numbers order before strings
CmpElem(a, b) ==
    IF a.type = "int" /\ b.type = "int" THEN CmpInt(a.val, b.val)
    ELSE IF a.type = "str" /\ b.type = "str" THEN CmpStr(a.val, b.val)
    ELSE IF a.type = "int" THEN -1 ELSE 1

\* cmp of two lists: first differing element decides, else the shorter is smaller
RECURSIVE CmpList(_, _)
CmpList(a, b) ==
    IF a = <<>> /\ b = <<>> THEN 0
    ELSE IF a = <<>> THEN -1
    ELSE IF b = <<>> THEN 1
    ELSE IF CmpElem(Head(a), Head(b)) /= 0 THEN CmpElem(Head(a), Head(b))
    ELSE CmpList(Tail(a), Tail(b))

\* the order sorted(l, key=alphanum_key) compares by
RefKeyCmp(a, b) == CmpList(alphanum_key(a), alphanum_key(b))

\* sorted() is stable: x goes after every element that does not compare greater
RECURSIVE InsertRef(_, _)
InsertRef(s, x) ==
    IF s = <<>> THEN <<x>>
    ELSE IF RefKeyCmp(x, Head(s)) < 0 THEN <<x>> \o s
    ELSE <<Head(s)>> \o InsertRef(Tail(s), x)

RECURSIVE natural_sort(_)
natural_sort(lst) ==
    IF lst = <<>> THEN <<>>
    ELSE InsertRef(natural_sort(SubSeq(lst, 1, Len(lst) - 1)), lst[Len(lst)])

(***************************************************************************)
(* generate_bom                                                            *)
(***************************************************************************)
\* units.componentValue(value): canonical form of a value string, so that
\* values written differently group together
componentValue(value) ==
    CASE value = "10k" -> "10000"
      [] value = "10K" -> "10000"
      [] value = "22k" -> "22000"
      [] OTHER -> value

\* str(n) of a one-digit attribute code
str(n) == Digits[n + 1]

attr_dict == (0 :> "Normal") @@ (1 :> "Normal+Insert") @@ (2 :> "Virtual")

\* attr = attr_dict[attr] if attr in attr_dict else str(attr)
AttrLabel(attr) == IF attr \in DOMAIN attr_dict THEN attr_dict[attr] ELSE str(attr)

\* group_key = (norm_value, footprint, attr)
group_key(m) == <<componentValue(m.value), m.footprint, AttrLabel(m.attr)>>

\* filter_layer is not None and filter_layer != m.GetLayer(): continue
LayerMatches(m, filter) == filter = None \/ filter = m.layer

\* valrefs = part_groups.setdefault(group_key, [value, []])
\* valrefs[1].append(m.GetReference())
\* The dict is a sequence of entries [key, valrefs] in insertion order.
AddToGroups(groups, m) ==
    IF \E i \in DOMAIN groups : groups[i].key = group_key(m)
    THEN [i \in DOMAIN groups |->
            IF groups[i].key = group_key(m)
            THEN [groups[i] EXCEPT !.valrefs =
                    <<groups[i].valrefs[1], Append(groups[i].valrefs[2], m.ref)>>]
            ELSE groups[i]]
    ELSE Append(groups, [key |-> group_key(m), valrefs |-> <<m.value, <<m.ref>>>>])

\* the loop over pcb.GetModules() building part_groups
RECURSIVE BuildGroups(_, _)
BuildGroups(mods, filter) ==
    IF mods = <<>> THEN <<>>
    ELSE LET rest == BuildGroups(SubSeq(mods, 1, Len(mods) - 1), filter)
             m == mods[Len(mods)]
         IN IF LayerMatches(m, filter) THEN AddToGroups(rest, m) ELSE rest

\* the line with the quantity counting each reference once
BomLine_distinct(g) ==
    <<Cardinality(Range(g.valrefs[2])), g.valrefs[1], g.key[2],
      natural_sort(g.valrefs[2])>>

\* line = (len(valrefs[1]), valrefs[0], footprint, natural_sort(valrefs[1]))
BomLine(g) ==
    <<Len(g.valrefs[2]), g.valrefs[1], g.key[2], natural_sort(g.valrefs[2])>>

\* the loop without the test for 'Virtual'
IsDropped_never(g) == FALSE

\* if attr == 'Virtual': continue
IsDropped(g) == g.key[3] = "Virtual"

\* the loop over part_groups.items() building bom_table, items in the order given
RECURSIVE BuildTable(_)
BuildTable(items) ==
    IF items = <<>> THEN <<>>
    ELSE LET rest == BuildTable(SubSeq(items, 1, Len(items) - 1))
             g == items[Len(items)]
         IN IF IsDropped(g) THEN rest ELSE Append(rest, BomLine(g))

\* re.findall('^[A-Z]*', rf[0])[0]: the leading run of upper-case letters
RECURSIVE upper_prefix(_)
upper_prefix(ref) ==
    IF ref = <<>> \/ Head(ref) \notin Range(UpperCase) THEN <<>>
    ELSE <<Head(ref)>> \o upper_prefix(Tail(ref))

ref_ord_table ==
    { <<<<"C">>, 1>>, <<<<"R">>, 2>>, <<<<"L">>, 3>>, <<<<"D">>, 4>>,
      <<<<"Q">>, 5>>, <<<<"U">>, 6>>, <<<<"Y">>, 7>>, <<<<"X">>, 8>>,
      <<<<"F">>, 9>>, <<<<"S", "W">>, 10>>, <<<<"A">>, 11>>,
      <<<<"H", "S">>, 1996>>, <<<<"C", "N", "N">>, 1997>>, <<<<"J">>, 1998>>,
      <<<<"P">>, 1999>>, <<<<"N", "T">>, 2000>>, <<<<"M", "H">>, 2001>> }

\* {...}.get(prefix, 1000)
ref_ord(prefix) ==
    IF \E e \in ref_ord_table : e[1] = prefix
    THEN (CHOOSE e \in ref_ord_table : e[1] = prefix)[2]
    ELSE 1000

\* the key with the quantity ascending
sort_func_qty_ascending(row) ==
    <<ref_ord(upper_prefix(row[4][1])), row[3], row[1], alphanum_key(row[4][1])>>

\* return ref_ord, fp, -qty, alphanum_key(rf[0])
sort_func(row) ==
    <<ref_ord(upper_prefix(row[4][1])), row[3], -row[1], alphanum_key(row[4][1])>>

\* cmp of two sort_func keys: tuples compare element by element
CmpSortKey(a, b) ==
    IF a[1] /= b[1] THEN CmpInt(a[1], b[1])
    ELSE IF CmpStr(a[2], b[2]) /= 0 THEN CmpStr(a[2], b[2])
    ELSE IF a[3] /= b[3] THEN CmpInt(a[3], b[3])
    ELSE CmpList(a[4], b[4])

\* sorted(bom_table, key=sort_func), stable
RECURSIVE InsertRow(_, _)
InsertRow(s, x) ==
    IF s = <<>> THEN <<x>>
    ELSE IF CmpSortKey(sort_func(x), sort_func(Head(s))) < 0 THEN <<x>> \o s
    ELSE <<Head(s)>> \o InsertRow(Tail(s), x)

RECURSIVE sorted_rows(_)
sorted_rows(table) ==
    IF table = <<>> THEN <<>>
    ELSE InsertRow(sorted_rows(SubSeq(table, 1, Len(table) - 1)), table[Len(table)])

\* the orders in which part_groups.items() may yield n entries
ItemOrders(n) == {p \in [1..n -> 1..n] : \A i, j \in 1..n : i /= j => p[i] /= p[j]}

(***************************************************************************)
(* normalize, parse_draw_segment, parse_poly_set, parse_text, parse_drawing *)
(***************************************************************************)
\* a Python number: n * 1e-6, n * 0.1 and the int 0 are the rationals num/den
Number(n, den) == [kind |-> "number", num |-> n, den |-> den]
\* a Python tuple of one element, as the expression `x,` builds
Tuple1(x) == [kind |-> "tuple", items |-> <<x>>]

\* n * 1e-6
Micro(n) == Number(n, 1000000)
\* n * 0.1
Tenth(n) == Number(n, 10)
\* n * -0.1
MinusTenth(n) == Number(-n, 10)

\* normalize(point) = [point[0] * 1e-6, point[1] * 1e-6]
normalize(point) == <<Micro(point[1]), Micro(point[2])>>

\* the shape lookup of parse_draw_segment; "" for any other shape code
ShapeName(code) ==
    CASE code = "S_SEGMENT" -> "segment"
      [] code = "S_CIRCLE" -> "circle"
      [] code = "S_ARC" -> "arc"
      [] code = "S_POLYGON" -> "polygon"
      [] OTHER -> ""

\* parse_poly_set: every outline's points, normalized; without PointCount on
\* the outline objects the result built so far (nothing) is returned
parse_poly_set(polygon_set) ==
    IF ~polygon_set.has_point_count THEN <<>>
    ELSE [i \in DOMAIN polygon_set.outlines |->
            [j \in DOMAIN polygon_set.outlines[i] |->
               normalize(polygon_set.outlines[i][j])]]

\* the arc branch without the swap
ArcAngles_unswapped(dd) ==
    <<Tenth(dd.arc_angle_start), Tenth(dd.arc_angle_start + dd.angle)>>

\* a1, a2 of the arc branch, swapped when the sweep is negative
ArcAngles(dd) ==
    LET a1 == Tenth(dd.arc_angle_start)
        a2 == Tenth(dd.arc_angle_start + dd.angle)
    IN IF dd.angle < 0 THEN <<a2, a1>> ELSE <<a1, a2>>

\* angle = 0; if d.GetParentModule() is not None:
\*     angle = d.GetParentModule().GetOrientation() * 0.1,
PolygonAngle(dd) ==
    IF dd.parent_module /= NoneObject
    THEN Tuple1(Tenth(dd.parent_module.orientation))
    ELSE Number(0, 1)

parse_draw_segment(dd) ==
    LET shape == ShapeName(dd.shape)
        start == normalize(dd.start)
        end == normalize(dd.end)
    IN CASE shape = "" -> NoneObject
         [] shape = "segment" ->
              [type |-> shape, start |-> start, end |-> end,
               width |-> Micro(dd.width)]
         [] shape = "circle" ->
              [type |-> shape, start |-> start, radius |-> Micro(dd.radius),
               width |-> Micro(dd.width)]
         [] shape = "arc" ->
              [type |-> shape, start |-> start, radius |-> Micro(dd.radius),
               startangle |-> ArcAngles(dd)[1], endangle |-> ArcAngles(dd)[2],
               width |-> Micro(dd.width)]
         [] shape = "polygon" ->
              IF "GetPolyShape" \in dd.api
              THEN [type |-> shape, pos |-> start, angle |-> PolygonAngle(dd),
                    polygons |-> parse_poly_set(dd.poly_shape)]
              ELSE NoneObject

\* parse_text: None for invisible text; accessors are probed with hasattr
parse_text(dd) ==
    IF ~dd.visible THEN NoneObject
    ELSE [pos |-> normalize(dd.start),
          text |-> IF "GetShownText" \in dd.api THEN dd.shown_text ELSE dd.text,
          height |-> Micro(dd.text_height),
          width |-> Micro(dd.text_width),
          horiz_justify |-> dd.horiz_justify,
          angle |-> IF dd.cls = "MTEXT" THEN Tenth(dd.draw_rotation)
                    ELSE IF "GetTextAngle" \in dd.api THEN Tenth(dd.text_angle)
                    ELSE Tenth(dd.orientation)]

parse_drawing(dd) ==
    IF dd.cls \in {"DRAWSEGMENT", "MGRAPHIC"} THEN parse_draw_segment(dd)
    ELSE IF dd.cls \in {"PTEXT", "MTEXT"} THEN parse_text(dd)
    ELSE NoneObject

(***************************************************************************)
(* parse_pad                                                               *)
(***************************************************************************)
\* shape_lookup: roundrect and custom only when pcbnew defines the constants
PadShapeName(code, pcbnew_names) ==
    CASE code = "PAD_SHAPE_RECT" -> "rect"
      [] code = "PAD_SHAPE_OVAL" -> "oval"
      [] code = "PAD_SHAPE_CIRCLE" -> "circle"
      [] code = "PAD_SHAPE_ROUNDRECT" /\ "PAD_SHAPE_ROUNDRECT" \in pcbnew_names
           -> "roundrect"
      [] code = "PAD_SHAPE_CUSTOM" /\ "PAD_SHAPE_CUSTOM" \in pcbnew_names
           -> "custom"
      [] OTHER -> ""

\* {PAD_DRILL_SHAPE_CIRCLE: "circle", PAD_DRILL_SHAPE_OBLONG: "oblong"}.get(code)
DrillShapeName(code) ==
    CASE code = "PAD_DRILL_SHAPE_CIRCLE" -> "circle"
      [] code = "PAD_DRILL_SHAPE_OBLONG" -> "oblong"
      [] OTHER -> None

\* the plating test that makes a pad through-hole
IsThroughHole(p) ==
    p.attribute = "PAD_ATTRIB_STANDARD" \/ p.attribute = "PAD_ATTRIB_HOLE_NOT_PLATED"

\* the F / B entries of layers, in that order
PadLayers(p) ==
    (IF "F_Cu" \in p.layer_set THEN <<"F">> ELSE <<>>)
    \o (IF "B_Cu" \in p.layer_set THEN <<"B">> ELSE <<>>)

\* pad_dict is a function from the keys present to their values
parse_pad(p) ==
    LET shape == PadShapeName(p.shape, p.pcbnew_names)
        is_pin1 == p.name = <<"1">> \/ p.name = <<"A", "1">>
        base == [layers |-> PadLayers(p), pos |-> normalize(p.pos),
                 size |-> normalize(p.size), angle |-> MinusTenth(p.orientation),
                 shape |-> shape]
        pin1 == IF is_pin1 THEN [pin1 |-> 1] ELSE <<>>
        polygons == IF shape = "custom"
                    THEN [polygons |-> parse_poly_set(p.custom_shape)] ELSE <<>>
        radius == IF shape = "roundrect"
                  THEN [radius |-> Micro(p.corner_radius)] ELSE <<>>
        drill == IF IsThroughHole(p)
                 THEN [type |-> "th", drillshape |-> DrillShapeName(p.drill_shape),
                       drillsize |-> normalize(p.drill_size)]
                 ELSE [type |-> "smd"]
        offset == IF "GetOffset" \in p.api
                  THEN [offset |-> normalize(p.offset)] ELSE <<>>
    IN IF shape = "" THEN NoneObject
       ELSE base @@ pin1 @@ polygons @@ radius @@ drill @@ offset

(***************************************************************************)
(* parse_modules                                                           *)
(***************************************************************************)
\* modules.setdefault(ref, value): an entry already there is kept
DictSet_keep_first(dict, key, value) ==
    [k \in DOMAIN dict \cup {key} |-> IF k \in DOMAIN dict THEN dict[k] ELSE value]

\* modules[ref] = value: the entry for ref is created or overwritten
DictSet(dict, key, value) ==
    [k \in DOMAIN dict \cup {key} |-> IF k = key THEN value ELSE dict[k]]

\* {pcbnew.F_Cu: "F", pcbnew.B_Cu: "B"}.get(layer)
CopperSide(layer) ==
    CASE layer = "F_Cu" -> "F"
      [] layer = "B_Cu" -> "B"
      [] OTHER -> None

\* the copper graphical items of a footprint that parse, tagged with their side
RECURSIVE ModuleDrawings(_)
ModuleDrawings(items) ==
    IF items = <<>> THEN <<>>
    ELSE LET rest == ModuleDrawings(SubSeq(items, 1, Len(items) - 1))
             it == items[Len(items)]
         IN IF it.layer \notin {"F_Cu", "B_Cu"} THEN rest
            ELSE IF parse_drawing(it) = NoneObject THEN rest
            ELSE Append(rest, [layer |-> IF it.layer = "F_Cu" THEN "F" ELSE "B",
                               drawing |-> parse_drawing(it)])

\* the pads of a footprint that parse
RECURSIVE ModulePads(_)
ModulePads(pads) ==
    IF pads = <<>> THEN <<>>
    ELSE LET rest == ModulePads(SubSeq(pads, 1, Len(pads) - 1))
             pad_rec == parse_pad(pads[Len(pads)])
         IN IF pad_rec /= NoneObject THEN Append(rest, pad_rec) ELSE rest

\* the record parse_modules stores for footprint m
ModuleRecord(m) ==
    [ref |-> m.ref,
     center |-> normalize(m.center),
     bbox |-> [pos |-> normalize(m.rect.pos), size |-> normalize(m.rect.size)],
     pads |-> ModulePads(m.pads),
     drawings |-> ModuleDrawings(m.items),
     layer |-> CopperSide(m.layer)]

\* the loop of parse_modules over pcb.GetModules()
RECURSIVE parse_modules(_)
parse_modules(mods) ==
    IF mods = <<>> THEN <<>>
    ELSE DictSet(parse_modules(SubSeq(mods, 1, Len(mods) - 1)),
                 mods[Len(mods)].ref, ModuleRecord(mods[Len(mods)]))

(***************************************************************************)
(* parse_edges, parse_silkscreen                                           *)
(***************************************************************************)
Min(a, b) == IF a <= b THEN a ELSE b
Max(a, b) == IF a >= b THEN a ELSE b

\* d.GetBoundingBox(): the rectangle spanned by the primitive's end points
BoundingBox(dd) ==
    [minx |-> Min(dd.start[1], dd.end[1]), miny |-> Min(dd.start[2], dd.end[2]),
     maxx |-> Max(dd.start[1], dd.end[1]), maxy |-> Max(dd.start[2], dd.end[2])]

\* bbox.Merge(other)
Merge(a, b) ==
    [minx |-> Min(a.minx, b.minx), miny |-> Min(a.miny, b.miny),
     maxx |-> Max(a.maxx, b.maxx), maxy |-> Max(a.maxy, b.maxy)]

\* for m in pcb.GetModules(): for g in m.GraphicalItems(): drawings.append(g)
RECURSIVE GraphicalItems(_)
GraphicalItems(mods) ==
    IF mods = <<>> THEN <<>> ELSE Head(mods).items \o GraphicalItems(Tail(mods))

\* the loop of parse_edges over the drawings: [edges, bbox]
RECURSIVE EdgesOf(_)
EdgesOf(drawings) ==
    IF drawings = <<>> THEN [edges |-> <<>>, bbox |-> NoneObject]
    ELSE LET rest == EdgesOf(SubSeq(drawings, 1, Len(drawings) - 1))
             dd == drawings[Len(drawings)]
         IN IF dd.layer = "Edge_Cuts" /\ parse_drawing(dd) /= NoneObject
            THEN [edges |-> Append(rest.edges, parse_drawing(dd)),
                  bbox |-> IF rest.bbox = NoneObject THEN BoundingBox(dd)
                           ELSE Merge(rest.bbox, BoundingBox(dd))]
            ELSE rest

\* parse_edges(pcb), once pcb.getDrawings() has returned the board's drawings
parse_edges(b) == EdgesOf(b.drawings \o GraphicalItems(b.modules))

\* for m in pcb.GetModules(): Reference(), Value() and the graphical items
RECURSIVE SilkscreenItems(_)
SilkscreenItems(mods) ==
    IF mods = <<>> THEN <<>>
    ELSE <<Head(mods).reference, Head(mods).value_text>> \o Head(mods).items
         \o SilkscreenItems(Tail(mods))

\* the parsed drawings on the given silkscreen layer, in order
RECURSIVE SilkOn(_, _)
SilkOn(drawings, layer) ==
    IF drawings = <<>> THEN <<>>
    ELSE LET rest == SilkOn(SubSeq(drawings, 1, Len(drawings) - 1), layer)
             dd == drawings[Len(drawings)]
         IN IF dd.layer = layer /\ parse_drawing(dd) /= NoneObject
            THEN Append(rest, parse_drawing(dd)) ELSE rest

\* parse_silkscreen(pcb), once pcb.GetDrawings() has returned the drawings
parse_silkscreen(b) ==
    LET drawings == b.drawings \o SilkscreenItems(b.modules)
    IN [F |-> SilkOn(drawings, "F_SilkS"), B |-> SilkOn(drawings, "B_SilkS")]

(***************************************************************************)
(* Inputs of the model.                                                    *)
(***************************************************************************)
\* the characters reference strings are drawn from
Alphabet == {"R", "r", "0", "1"}
RefStrings == UNION {[1..k -> Alphabet] : k \in 0..MaxRefLen}

\* reference designators found on boards
C1 == <<"C", "1">>
R1 == <<"R", "1">>
R01 == <<"R", "0", "1">>
R2 == <<"R", "2">>
R10 == <<"R", "1", "0">>
J1 == <<"J", "1">>
SW1 == <<"S", "W", "1">>
r1 == <<"r", "1">>
BoardRefs == {C1, R1, R01, R2, R10, J1, SW1, r1}
RefLists == UNION {[1..k -> BoardRefs] : k \in 0..MaxModules}

\* footprint names and the footprints boards are made of
FP0603 == <<"0", "6", "0", "3">>
FP0805 == <<"0", "8", "0", "5">>
\* a drawing primitive or text item of the board model
Drawing(cls, layer, shape, arc_angle_start, angle, parent_module, api, visible) ==
    [cls |-> cls, layer |-> layer, shape |-> shape,
     start |-> <<1000000, 2000000>>, end |-> <<3000000, 1000000>>,
     width |-> 150000, radius |-> 500000,
     arc_angle_start |-> arc_angle_start, angle |-> angle,
     parent_module |-> parent_module, api |-> api,
     poly_shape |-> [has_point_count |-> TRUE,
                     outlines |-> << <<<<0, 0>>, <<1000000, 0>>, <<0, 1000000>>>> >>],
     visible |-> visible, text |-> "%R", shown_text |-> "R1",
     text_height |-> 1000000, text_width |-> 800000, horiz_justify |-> 0,
     draw_rotation |-> 900, text_angle |-> 900, orientation |-> 900]

\* a pad of the board model
Pad(shape, attribute, drill_shape, name, layer_set, pcbnew_names, api) ==
    [shape |-> shape, attribute |-> attribute, drill_shape |-> drill_shape,
     name |-> name, layer_set |-> layer_set, pcbnew_names |-> pcbnew_names,
     api |-> api, pos |-> <<1000000, 2000000>>, size |-> <<1500000, 1500000>>,
     orientation |-> 900, drill_size |-> <<800000, 800000>>,
     offset |-> <<0, 0>>, corner_radius |-> 250000,
     custom_shape |-> [has_point_count |-> TRUE,
                       outlines |-> << <<<<0, 0>>, <<1000000, 0>>, <<0, 1000000>>>> >>]]

NewApi == {"GetPolyShape", "GetTextAngle", "GetShownText"}
SegmentOn(layer) ==
    Drawing("DRAWSEGMENT", layer, "S_SEGMENT", 0, 0, NoneObject, NewApi, TRUE)
TextOn(layer, visible) ==
    Drawing("PTEXT", layer, "", 0, 0, NoneObject, NewApi, visible)

\* a footprint of the board model
FootprintWith(ref, value, footprint, attr, layer, center, pads, items) ==
    [ref |-> ref, value |-> value, footprint |-> footprint, attr |-> attr,
     layer |-> layer, center |-> center,
     rect |-> [pos |-> center, size |-> <<2000000, 1000000>>],
     pads |-> pads, items |-> items,
     reference |-> TextOn("F_SilkS", TRUE), value_text |-> TextOn("F_Fab", TRUE)]
\* a footprint with the accessors generate_bom reads
Footprint(ref, value, footprint, attr, layer) ==
    [ref |-> ref, value |-> value, footprint |-> footprint, attr |-> attr,
     layer |-> layer]
ModulePool ==
    {Footprint(r, v, FP0603, 0, "F_Cu") : r \in {R1, R01, R2}, v \in {"10k", "22k"}}
    \cup {Footprint(C1, "10k", FP0805, 0, "F_Cu"),
          Footprint(r1, "10K", FP0603, 0, "F_Cu"),
          Footprint(R2, "10K", FP0603, 0, "B_Cu"),
          Footprint(R2, "10k", FP0603, 2, "F_Cu"),
          Footprint(R2, "10k", FP0603, 3, "F_Cu")}
Boards == UNION {[1..k -> ModulePool] : k \in 0..MaxModules}

\* native angles, in tenths of a degree
Angles == {450 * k : k \in -MaxAngle..MaxAngle}
ShapeCodes == {"S_SEGMENT", "S_CIRCLE", "S_ARC", "S_POLYGON", "S_CURVE"}
ShapeInputs ==
    {Drawing("MGRAPHIC", "F_Cu", sh, a, sw, par, api, TRUE) :
        sh \in ShapeCodes, a \in Angles, sw \in Angles,
        par \in {NoneObject} \cup {[orientation |-> o] : o \in Angles},
        api \in {{}, {"GetPolyShape"}}}

PadInputs ==
    {Pad(sh, at, ds, nm, ls, pn, api) :
        sh \in {"PAD_SHAPE_RECT", "PAD_SHAPE_OVAL", "PAD_SHAPE_CIRCLE",
                "PAD_SHAPE_ROUNDRECT", "PAD_SHAPE_CUSTOM", "PAD_SHAPE_TRAPEZOID"},
        at \in {"PAD_ATTRIB_STANDARD", "PAD_ATTRIB_SMD", "PAD_ATTRIB_CONN",
                "PAD_ATTRIB_HOLE_NOT_PLATED"},
        ds \in {"PAD_DRILL_SHAPE_CIRCLE", "PAD_DRILL_SHAPE_OBLONG",
                "PAD_DRILL_SHAPE_UNDEFINED"},
        nm \in {<<"1">>, <<"A", "1">>, <<"2">>},
        ls \in SUBSET {"F_Cu", "B_Cu"},
        pn \in {{}, {"PAD_SHAPE_ROUNDRECT", "PAD_SHAPE_CUSTOM"}},
        api \in {{}, {"GetOffset"}}}

\* footprints that differ in what parse_modules records of them
SmdPad ==
    Pad("PAD_SHAPE_RECT", "PAD_ATTRIB_SMD", "PAD_DRILL_SHAPE_CIRCLE", <<"1">>,
        {"F_Cu"}, {}, {"GetOffset"})
ThPad ==
    Pad("PAD_SHAPE_OVAL", "PAD_ATTRIB_STANDARD", "PAD_DRILL_SHAPE_OBLONG", <<"2">>,
        {"F_Cu", "B_Cu"}, {}, {})
OddPad ==
    Pad("PAD_SHAPE_TRAPEZOID", "PAD_ATTRIB_SMD", "PAD_DRILL_SHAPE_CIRCLE", <<"3">>,
        {"F_Cu"}, {}, {})
GeomPool ==
    {FootprintWith(r, "10k", FP0603, 0, "F_Cu", c, <<>>, <<>>) :
        r \in {R1, R2}, c \in {<<0, 0>>, <<1000000, 2000000>>}}
    \cup {FootprintWith(r, "10k", FP0603, 0, "B_Cu", c, <<SmdPad>>, <<SegmentOn("F_Cu")>>) :
        r \in {R1, R2}, c \in {<<0, 0>>, <<1000000, 2000000>>}}
    \cup {FootprintWith(r, "10k", FP0603, 0, "In1_Cu", <<0, 0>>, <<OddPad, ThPad>>,
                        <<SegmentOn("F_SilkS"), SegmentOn("B_Cu")>>) :
        r \in {R1, R2}}
GeomBoards == UNION {[1..k -> GeomPool] : k \in 0..MaxModules}

\* the boards main is run on
MainDrawingPool ==
    {SegmentOn("Edge_Cuts"), SegmentOn("F_SilkS"), TextOn("Edge_Cuts", FALSE),
     Drawing("DRAWSEGMENT", "Edge_Cuts", "S_CURVE", 0, 0, NoneObject, NewApi, TRUE)}
DrawingLists == UNION {[1..k -> MainDrawingPool] : k \in 0..MaxDrawings}
MainBoards ==
    {[file_name |-> fn, drawings |-> ds, modules |-> ms, attrs |-> at] :
        fn \in {"", "board.kicad_pcb"},
        ds \in DrawingLists,
        ms \in {<<>>} \cup {<<FootprintWith(R1, "10k", FP0603, 0, "F_Cu", <<0, 0>>,
                                             <<SmdPad>>, items)>> :
                              items \in DrawingLists},
        at \in {{"GetModules", "GetDrawings"},
                {"GetModules", "getDrawings"},
                {"GetModules", "GetDrawings", "getDrawings"}}}

(***************************************************************************)
(* Initial values of the variables an entry point does not use.            *)
(***************************************************************************)
SortIdle == l = <<>> /\ refs_sorted = <<>>
BomIdle ==
    /\ pcb = <<>> /\ filter_layer = None /\ part_groups = <<>>
    /\ bom_table = <<>> /\ modules = <<>>
ShapeIdle == d = NoneObject /\ shape_rec = NoneObject
PadIdle == pad = NoneObject /\ pad_dict = NoneObject
MainIdle ==
    /\ board = NoneObject /\ launch_browser = FALSE /\ main_pc = "idle"
    /\ edges_bbox = NoneObject /\ messages = <<>>
    /\ generate_file_calls = 0 /\ open_file_calls = 0

(***************************************************************************)
(* natural_sort applied to lists of references                             *)
(***************************************************************************)
\* the inputs: two-element lists of arbitrary strings, and the reference
\* lists of BOM groups
SortInit ==
    /\ l \in {<<a, b>> : a \in RefStrings, b \in RefStrings} \cup RefLists
    /\ refs_sorted = <<>>
    /\ pc = "call"
    /\ BomIdle /\ ShapeIdle /\ PadIdle /\ MainIdle

\* refs_sorted = natural_sort(l)
NaturalSort ==
    /\ pc = "call"
    /\ pc' = "return"
    /\ refs_sorted' = natural_sort(l)
    /\ UNCHANGED <<l, bom_vars, shape_vars, pad_vars, main_vars>>

SortNext == NaturalSort
SpecSort == SortInit /\ [][SortNext]_vars

(***************************************************************************)
(* C4: the order natural_sort puts references in                           *)
(***************************************************************************)
Count(s, x) == Cardinality({i \in DOMAIN s : s[i] = x})
IsPermutation(s, t) ==
    /\ Len(s) = Len(t)
    /\ \A x \in Range(s) \cup Range(t) : Count(s, x) = Count(t, x)

\* a sorts strictly before b: natural_sort puts a first whichever way round
\* the two are handed in
SortsBefore(a, b) ==
    natural_sort(<<a, b>>) = <<a, b>> /\ natural_sort(<<b, a>>) = <<a, b>>

\* s[i] is a leading zero of its digit run: a zero, followed by a digit, with
\* nothing but zeros between the start of the run and i
LeadingZero(s, i) ==
    /\ s[i] = "0" /\ i < Len(s) /\ IsDigitChar(s[i + 1])
    /\ \A j \in 1..i : (\A k \in j..i : IsDigitChar(s[k])) => s[j] = "0"

RECURSIVE DropLeadingZeros(_, _)
DropLeadingZeros(s, i) ==
    IF i > Len(s) THEN <<>>
    ELSE (IF LeadingZero(s, i) THEN <<>> ELSE <<s[i]>>) \o DropLeadingZeros(s, i + 1)

\* a reference up to letter case and leading zeros of its digit runs
Canon(s) == lower(DropLeadingZeros(s, 1))

\* the digits of a reference that is a run of non-digits followed by digits
LetterPart(s) == SelectSeq(s, LAMBDA c : ~IsDigitChar(c))
DigitPart(s) == SelectSeq(s, IsDigitChar)
IsLettersThenDigits(s) == s = LetterPart(s) \o DigitPart(s) /\ DigitPart(s) /= <<>>
RECURSIVE Pow10(_)
Pow10(n) == IF n = 0 THEN 1 ELSE 10 * Pow10(n - 1)
RECURSIVE DecimalValue(_)
DecimalValue(s) ==
    IF s = <<>> THEN 0
    ELSE (Ord(Head(s)) - 48) * Pow10(Len(s) - 1) + DecimalValue(Tail(s))

\* C4 as stated: natural_sort orders references by a total order in which, of
\* any two distinct references, exactly one sorts strictly before the other
\* (and R1 < R2 < R10).
C4_AnyTwoDistinctStrictlyOrdered ==
    (pc = "return" /\ Len(l) = 2 /\ l[1] /= l[2])
        => (SortsBefore(l[1], l[2]) /= SortsBefore(l[2], l[1]))

\* C4 as amended: the result is a permutation of the input; of two references
\* that differ other than in letter case or in leading zeros of digit runs
\* exactly one sorts strictly before the other, whichever way round they are
\* handed in; two references that differ only in letter case or leading zeros
\* compare equal and keep their input order; references with the same letters
\* (case-insensitively) followed by digits sort by the integer value of the
\* digits; and R1 < R2 < R10.
C4_NaturalSortOrder ==
    pc = "return" =>
        /\ IsPermutation(l, refs_sorted)
        /\ \A i, j \in DOMAIN refs_sorted : i < j =>
             LET a == refs_sorted[i]
                 b == refs_sorted[j]
             IN /\ Canon(a) /= Canon(b) =>
                     SortsBefore(a, b) /\ ~SortsBefore(b, a)
                /\ (Canon(a) = Canon(b) /\ a /= b) =>
                     /\ ~SortsBefore(a, b) /\ ~SortsBefore(b, a)
                     /\ \E m, n \in DOMAIN l : m < n /\ l[m] = a /\ l[n] = b
                /\ (/\ IsLettersThenDigits(a) /\ IsLettersThenDigits(b)
                    /\ lower(LetterPart(a)) = lower(LetterPart(b)))
                     => DecimalValue(DigitPart(a)) <= DecimalValue(DigitPart(b))
        /\ (l = <<R10, R2, R1>> => refs_sorted = <<R1, R2, R10>>)

\* C4 witness: the row R10, R2, R1 has been sorted to R1, R2, R10
C4_Witness == pc = "return" /\ l = <<R10, R2, R1>> /\ refs_sorted = <<R1, R2, R10>>

(***************************************************************************)
(* generate_bom(pcb, filter_layer) on boards                               *)
(***************************************************************************)
BomInit ==
    /\ pcb \in Boards
    /\ filter_layer \in {None, "F_Cu", "B_Cu"}
    /\ part_groups = <<>> /\ bom_table = <<>> /\ modules = <<>>
    /\ pc = "call"
    /\ SortIdle /\ ShapeIdle /\ PadIdle /\ MainIdle

\* generate_bom: part_groups is built in enumeration order, its items are
\* walked in the order the dict yields them, the table is sorted and returned
GenerateBom ==
    /\ pc = "call"
    /\ pc' = "return"
    /\ LET groups == BuildGroups(pcb, filter_layer) IN
         /\ part_groups' = groups
         /\ \E order \in ItemOrders(Len(groups)) :
              bom_table' = sorted_rows(BuildTable([i \in DOMAIN groups |-> groups[order[i]]]))
    /\ UNCHANGED <<pcb, filter_layer, modules, sort_vars, shape_vars, pad_vars, main_vars>>

BomNext == GenerateBom
SpecBom == BomInit /\ [][BomNext]_vars

(***************************************************************************)
(* C1, C2, C3, C9: the table generate_bom returns                          *)
(***************************************************************************)
\* the footprints of the board that pass the layer filter
Matching == {i \in DOMAIN pcb : filter_layer = None \/ pcb[i].layer = filter_layer}
\* the attribute code KiCad gives virtual footprints
IsVirtual(m) == m.attr = 2
RowRefs == UNION {Range(bom_table[i][4]) : i \in DOMAIN bom_table}
NonVirtualGroups == {i \in DOMAIN part_groups : part_groups[i].key[3] /= "Virtual"}
\* row r is the row of group g: same display value, footprint and references
RowOfGroup(r, g) ==
    /\ r[2] = g.valrefs[1] /\ r[3] = g.key[2]
    /\ IsPermutation(r[4], g.valrefs[2])
\* the footprints the grouping maps to key k
MappedTo(k) == {i \in Matching : group_key(pcb[i]) = k}

\* C1: the references of the rows are exactly the references of the
\* layer-matching footprints whose attribute is not Virtual, and every row is
\* the row of a group whose attribute label is not 'Virtual'.
C1_RowsCoverNonVirtual ==
    pc = "return" =>
        /\ RowRefs = {pcb[i].ref : i \in {j \in Matching : ~IsVirtual(pcb[j])}}
        /\ Len(bom_table) = Cardinality(NonVirtualGroups)
        /\ \A i \in DOMAIN bom_table :
             \E g \in NonVirtualGroups : RowOfGroup(bom_table[i], part_groups[g])

\* C1 witness: a front-filtered BOM of a board with a virtual footprint, a
\* back footprint and a front footprint has a row
C1_Witness ==
    /\ pc = "return" /\ filter_layer = "F_Cu" /\ Len(bom_table) >= 1
    /\ \E i \in DOMAIN pcb : IsVirtual(pcb[i]) /\ pcb[i].layer = "F_Cu"
    /\ \E i \in DOMAIN pcb : ~IsVirtual(pcb[i]) /\ pcb[i].layer = "B_Cu"
    /\ \E i \in DOMAIN pcb : ~IsVirtual(pcb[i]) /\ pcb[i].layer = "F_Cu"

\* C2 as stated: every row's quantity is the number of distinct references
\* mapped to its grouping key, also on boards with duplicate references.
C2_QuantityIsDistinctReferences ==
    pc = "return" =>
        \A i \in DOMAIN bom_table :
            \E g \in NonVirtualGroups :
                /\ RowOfGroup(bom_table[i], part_groups[g])
                /\ bom_table[i][1] =
                     Cardinality({pcb[j].ref : j \in MappedTo(part_groups[g].key)})

\* C2 as amended: every row's quantity is the number of footprints mapped to
\* its grouping key, which is the length of its reference list; a reference
\* carried by two footprints of the group counts twice.
C2_QuantityIsFootprintCount ==
    pc = "return" =>
        \A i \in DOMAIN bom_table :
            /\ bom_table[i][1] = Len(bom_table[i][4])
            /\ \E g \in NonVirtualGroups :
                 /\ RowOfGroup(bom_table[i], part_groups[g])
                 /\ bom_table[i][1] = Cardinality(MappedTo(part_groups[g].key))

\* C2 witness: a row of two footprints that carry the same reference
C2_Witness ==
    /\ pc = "return"
    /\ \E i \in DOMAIN bom_table :
         bom_table[i][1] = 2 /\ Cardinality(Range(bom_table[i][4])) = 1

\* the parts of a row's sort key, as the claim lists them
RowFirstRef(r) == r[4][1]
RowRank(r) == ref_ord(upper_prefix(RowFirstRef(r)))
\* row a may precede row b
RowLeq(a, b) ==
    \/ RowRank(a) < RowRank(b)
    \/ /\ RowRank(a) = RowRank(b)
       /\ \/ CmpStr(a[3], b[3]) < 0
          \/ /\ a[3] = b[3]
             /\ \/ a[1] > b[1]
                \/ a[1] = b[1] /\ RefKeyCmp(RowFirstRef(a), RowFirstRef(b)) <= 0

TableFor(order) ==
    sorted_rows(BuildTable([i \in DOMAIN part_groups |-> part_groups[order[i]]]))

\* C9: the order of the rows does not depend on the order in which the
\* grouping map is iterated: no two distinct rows have equal sort keys.
C9_RowOrderDeterministic ==
    pc = "return" =>
        /\ \A i, j \in DOMAIN bom_table :
             (i /= j /\ bom_table[i] /= bom_table[j]) =>
                 CmpSortKey(sort_func(bom_table[i]), sort_func(bom_table[j])) /= 0
        /\ \A order \in ItemOrders(Len(part_groups)) : TableFor(order) = bom_table

(***************************************************************************)
(* parse_draw_segment(d) on drawing primitives                             *)
(***************************************************************************)
ShapeInit ==
    /\ d \in ShapeInputs /\ shape_rec = NoneObject
    /\ pc = "call"
    /\ SortIdle /\ BomIdle /\ PadIdle /\ MainIdle

ParseDrawSegment ==
    /\ pc = "call"
    /\ pc' = "return"
    /\ shape_rec' = parse_draw_segment(d)
    /\ UNCHANGED <<d, sort_vars, bom_vars, pad_vars, main_vars>>

ShapeNext == ParseDrawSegment
SpecShape == ShapeInit /\ [][ShapeNext]_vars

\* x is n tenths: x = n * 0.1
IsTenthOf(x, n) == x.num * 10 = n * x.den
NumLeq(x, y) == x.num * y.den <= y.num * x.den
Emitted(type) == pc = "return" /\ shape_rec /= NoneObject /\ shape_rec.type = type

\* C6: for every arc, whatever the start angle and the sweep, the record has
\* startangle <= endangle, and {startangle, endangle} is
\* {start x 0.1, (start + sweep) x 0.1}; start 0, sweep -900 gives -90 and 0.
C6_ArcAnglesOrdered ==
    (pc = "return" /\ d.shape = "S_ARC") =>
        /\ Emitted("arc")
        /\ NumLeq(shape_rec.startangle, shape_rec.endangle)
        /\ \/ /\ IsTenthOf(shape_rec.startangle, d.arc_angle_start)
              /\ IsTenthOf(shape_rec.endangle, d.arc_angle_start + d.angle)
           \/ /\ IsTenthOf(shape_rec.endangle, d.arc_angle_start)
              /\ IsTenthOf(shape_rec.startangle, d.arc_angle_start + d.angle)
        /\ (d.arc_angle_start = 0 /\ d.angle = -900) =>
              /\ shape_rec.startangle.num = -90 * shape_rec.startangle.den
              /\ shape_rec.endangle.num = 0

\* C6 witness: the arc with start 0 and sweep -900 has been parsed
C6_Witness == Emitted("arc") /\ d.arc_angle_start = 0 /\ d.angle = -900

\* C8: the rotation angle of a polygon record is one number: the owning
\* footprint's orientation x 0.1, or 0 when no footprint owns the primitive.
C8_PolygonAngleIsNumber ==
    Emitted("polygon") =>
        /\ shape_rec.angle.kind = "number"
        /\ IF d.parent_module /= NoneObject
           THEN IsTenthOf(shape_rec.angle, d.parent_module.orientation)
           ELSE shape_rec.angle.num = 0

(***************************************************************************)
(* parse_pad(pad) on pads                                                  *)
(***************************************************************************)
PadInit ==
    /\ pad \in PadInputs /\ pad_dict = NoneObject
    /\ pc = "call"
    /\ SortIdle /\ BomIdle /\ ShapeIdle /\ MainIdle

ParsePad ==
    /\ pc = "call"
    /\ pc' = "return"
    /\ pad_dict' = parse_pad(pad)
    /\ UNCHANGED <<pad, sort_vars, bom_vars, shape_vars, main_vars>>

PadNext == ParsePad
SpecPad == PadInit /\ [][PadNext]_vars

\* C10: type is 'th' exactly for standard-plated and hole-not-plated pads and
\* 'smd' otherwise; drillshape and drillsize are present exactly on 'th'
\* records, where drillshape is 'circle' or 'oblong' for any drill-shape code.
C10_PadTypeAndDrill ==
    (pc = "return" /\ pad_dict /= NoneObject) =>
        /\ pad_dict.type \in {"th", "smd"}
        /\ pad_dict.type = "th" <=>
             pad.attribute \in {"PAD_ATTRIB_STANDARD", "PAD_ATTRIB_HOLE_NOT_PLATED"}
        /\ "drillshape" \in DOMAIN pad_dict <=> pad_dict.type = "th"
        /\ "drillsize" \in DOMAIN pad_dict <=> pad_dict.type = "th"
        /\ pad_dict.type = "th" => pad_dict.drillshape \in {"circle", "oblong"}

(***************************************************************************)
(* parse_modules(pcb) on boards                                            *)
(***************************************************************************)
ModulesInit ==
    /\ pcb \in GeomBoards
    /\ filter_layer = None /\ part_groups = <<>> /\ bom_table = <<>>
    /\ modules = <<>>
    /\ pc = "call"
    /\ SortIdle /\ ShapeIdle /\ PadIdle /\ MainIdle

ParseModules ==
    /\ pc = "call"
    /\ pc' = "return"
    /\ modules' = parse_modules(pcb)
    /\ UNCHANGED <<pcb, filter_layer, part_groups, bom_table,
                   sort_vars, shape_vars, pad_vars, main_vars>>

ModulesNext == ParseModules
SpecModules == ModulesInit /\ [][ModulesNext]_vars

\* the footprint enumerated last among those that carry reference ref
LastWith(ref) ==
    CHOOSE i \in DOMAIN pcb :
        pcb[i].ref = ref /\ \A j \in DOMAIN pcb : pcb[j].ref = ref => j <= i

\* C7: the mapping has one key per distinct reference, and the entry of a
\* reference is the record of the footprint enumerated last with it.
C7_LastFootprintWins ==
    pc = "return" =>
        /\ DOMAIN modules = {pcb[i].ref : i \in DOMAIN pcb}
        /\ \A ref \in DOMAIN modules :
             LET m == pcb[LastWith(ref)] IN
               /\ modules[ref].ref = ref
               /\ modules[ref].center[1].num = m.center[1]
               /\ modules[ref].center[2].num = m.center[2]
               /\ modules[ref].center[1].den = 1000000
               /\ modules[ref].center[2].den = 1000000
               /\ Len(modules[ref].pads) <= Len(m.pads)
               /\ (m.layer = "F_Cu" => modules[ref].layer = "F")
               /\ (m.layer = "B_Cu" => modules[ref].layer = "B")
               /\ (m.layer \notin {"F_Cu", "B_Cu"} => modules[ref].layer = None)

\* C7 witness: two footprints with one reference and different centers and
\* layers have been parsed
C7_Witness ==
    /\ pc = "return"
    /\ \E i, j \in DOMAIN pcb :
         /\ i < j /\ pcb[i].ref = pcb[j].ref
         /\ pcb[i].center /= pcb[j].center /\ pcb[i].layer /= pcb[j].layer

(***************************************************************************)
(* main(pcb, launch_browser)                                               *)
(***************************************************************************)
MainInit ==
    /\ board \in MainBoards
    /\ launch_browser \in BOOLEAN
    /\ main_pc = "start"
    /\ edges_bbox = NoneObject /\ messages = <<>>
    /\ generate_file_calls = 0 /\ open_file_calls = 0
    /\ pc = "call"
    /\ SortIdle /\ BomIdle /\ ShapeIdle /\ PadIdle

SaveBoardMsg == "Please save the board file before generating BOM."
OutlineMsg ==
    "Please draw pcb outline on the edges layer on sheet or any module before generating BOM."

\* lines 418-439: without a file name the message is reported and main
\* returns; otherwise the directory, date and title are worked out
Main_CheckFileName ==
    /\ main_pc = "start"
    /\ IF board.file_name = ""
       THEN /\ messages' = Append(messages, SaveBoardMsg)
            /\ main_pc' = "returned"
       ELSE /\ messages' = messages
            /\ main_pc' = "parse_edges"
    /\ UNCHANGED <<pc, board, launch_browser, edges_bbox, generate_file_calls,
                   open_file_calls, sort_vars, bom_vars, shape_vars, pad_vars>>

\* lines 440-449: parse_edges(pcb); looking up an accessor the board does not
\* have raises AttributeError, which nothing in main catches; with no bbox
\* the outline message is reported and main returns
Main_ParseEdges ==
    /\ main_pc = "parse_edges"
    /\ IF "getDrawings" \notin board.attrs
       THEN /\ main_pc' = "raised"
            /\ UNCHANGED <<edges_bbox, messages>>
       ELSE /\ edges_bbox' = parse_edges(board)
            /\ IF parse_edges(board).bbox = NoneObject
               THEN /\ messages' = Append(messages, OutlineMsg)
                    /\ main_pc' = "returned"
               ELSE /\ messages' = messages
                    /\ main_pc' = "pcbdata"
    /\ UNCHANGED <<pc, board, launch_browser, generate_file_calls,
                   open_file_calls, sort_vars, bom_vars, shape_vars, pad_vars>>

\* lines 450-474: pcbdata is put together: the silkscreen, the modules and
\* the BOM of both sides (the front and back BOMs are built the same way)
Main_BuildPcbdata ==
    /\ main_pc = "pcbdata"
    /\ IF "GetDrawings" \notin board.attrs
       THEN /\ main_pc' = "raised"
            /\ UNCHANGED <<modules, part_groups, bom_table>>
       ELSE /\ main_pc' = "generate_file"
            /\ modules' = parse_modules(board.modules)
            /\ LET groups == BuildGroups(board.modules, None) IN
                 /\ part_groups' = groups
                 /\ \E order \in ItemOrders(Len(groups)) :
                      bom_table' = sorted_rows(BuildTable(
                                      [i \in DOMAIN groups |-> groups[order[i]]]))
    /\ UNCHANGED <<pc, pcb, filter_layer, board, launch_browser, edges_bbox,
                   messages, generate_file_calls, open_file_calls,
                   sort_vars, shape_vars, pad_vars>>

\* line 476: bom_file = generate_file(bom_file_dir, pcbdata)
Main_GenerateFile ==
    /\ main_pc = "generate_file"
    /\ generate_file_calls' = generate_file_calls + 1
    /\ main_pc' = IF launch_browser THEN "open_file" ELSE "returned"
    /\ UNCHANGED <<pc, board, launch_browser, edges_bbox, messages,
                   open_file_calls, sort_vars, bom_vars, shape_vars, pad_vars>>

\* lines 478-480: open_file(bom_file)
Main_OpenFile ==
    /\ main_pc = "open_file"
    /\ open_file_calls' = open_file_calls + 1
    /\ main_pc' = "returned"
    /\ UNCHANGED <<pc, board, launch_browser, edges_bbox, messages,
                   generate_file_calls, sort_vars, bom_vars, shape_vars, pad_vars>>

MainNext ==
    \/ Main_CheckFileName
    \/ Main_ParseEdges
    \/ Main_BuildPcbdata
    \/ Main_GenerateFile
    \/ Main_OpenFile
SpecMain == MainInit /\ [][MainNext]_vars

\* some drawing on Edge_Cuts, among the board's drawings and the footprints'
\* graphical items, parses
OutlineParses ==
    \E dd \in Range(board.drawings) \cup
              UNION {Range(board.modules[i].items) : i \in DOMAIN board.modules} :
        dd.layer = "Edge_Cuts" /\ parse_drawing(dd) /= NoneObject
MainOver == main_pc \in {"returned", "raised"}

\* C5: on a saved board, if no Edge_Cuts drawing parses, main reports the
\* outline error and returns without calling generate_file or open_file;
\* when one parses, generate_file is called exactly once.
C5_OutlineDecidesOutput ==
    (MainOver /\ board.file_name /= "") =>
        /\ ~OutlineParses =>
             /\ main_pc = "returned"
             /\ messages = <<OutlineMsg>>
             /\ generate_file_calls = 0 /\ open_file_calls = 0
        /\ OutlineParses => generate_file_calls = 1

====
